---- MODULE Spec2Model ----
(***************************************************************************)
(* The typing session engine of ratatype (src/src/main.rs): struct App,    *)
(* App::handle_key_event, App::update_wpm, App::restart and the control    *)
(* loop run_app.                                                           *)
(*                                                                         *)
(* Time is counted in whole seconds.  An Instant is a natural number, an   *)
(* Option<Instant> that is None is the value None (-1).  Every             *)
(* Instant::now() / Instant::elapsed() of the source is a separate read of *)
(* the clock; the reads of one call are non-decreasing and the clock may   *)
(* step between any two of them.                                           *)
(***************************************************************************)
EXTENDS Integers, Sequences, FiniteSets, TLC

VARIABLES
    app,        \* the fields of struct App (main.rs 151-174)
    clock,      \* the monotonic clock behind Instant::now()
    screen,     \* position of run_app: "typing", "results" or "exited"
    saves,      \* history: calls of save_history for this session, and its warning
    session,    \* history: number of restarts so far
    mistyped,   \* history: positions at which a mismatched key was applied
    last        \* history: the last operation of the session and the state it met

vars == <<app, clock, screen, saves, session, mistyped, last>>

----------------------------------------------------------------------------
(* Bounds of the model *)

\* key events that count towards total_keystrokes, per session
MaxKeys == 3
\* the clock stops at MaxClock
MaxClock == 2
\* restarts per run
MaxSessions == 1
\* the --duration argument, in seconds (main.rs 81-82, 201)
TestDuration == 1
\* length of the long target text, and the largest cursor
MaxCursor == 90
\* length of the text of one repeated character
MaxRepeat == 7
\* keystrokes per session over that text
MaxAttempts == 8

(* Program constants (main.rs 28-31) *)
WPM_UPDATE_INTERVAL_SECS == 1
INITIAL_WPM_DELAY_SECS == 2
CHARS_PER_WORD == 5
MAX_WPM_CAP == 500

None == -1

\* the target texts generate_text may produce, scaled down from MIN_TEXT_LENGTH
Texts == { <<"a", "b">>, <<"a", "b", "c">> }

\* KeyCode::Char(c)
Chars == {"a", "b", "c", "x"}
\* the key codes run_app and handle_key_event tell apart
Keys == Chars \cup {"Backspace", "Enter", "Esc"}
\* a loop iteration whose poll returned no key press
NoEvent == "NoEvent"

----------------------------------------------------------------------------
(* The clock reads of one call, in program order *)

\* the k-th read of a call that begins at clock value c, when the i-th second
\* after c begins after the first p[i] reads of the call
ReadAt(c, p, k) == c + Cardinality({i \in DOMAIN p : p[i] < k})

\* the reads of one call: start (main.rs 334), last_key (335), key_start (336),
\* now (339), next_key_start (363, 385, 398, 415), wpm_now (426),
\* wpm_elapsed (427), timeout (809)
ReadsWithStep(c, p) ==
    [start          |-> ReadAt(c, p, 1),
     last_key       |-> ReadAt(c, p, 2),
     key_start      |-> ReadAt(c, p, 3),
     now            |-> ReadAt(c, p, 4),
     next_key_start |-> ReadAt(c, p, 5),
     wpm_now        |-> ReadAt(c, p, 6),
     wpm_elapsed    |-> ReadAt(c, p, 7),
     timeout        |-> ReadAt(c, p, 8)]

\* all the read sequences possible from each clock value c: Instant is
\* monotonic, and nothing else binds two reads, so every non-decreasing
\* sequence of values from c to MaxClock
ReadsFrom ==
    [c \in 0..MaxClock |->
        { ReadsWithStep(c, p) :
              p \in { q \in [1..(MaxClock - c) -> 0..8] :
                          \A i, j \in DOMAIN q : i < j => q[i] <= q[j] } }]

Reads(c) == ReadsFrom[c]

\* the read sequences of a call on a session that has begun: the reads of
\* main.rs 334-336 are not made (333), and are given the value of the next
\* read that is made
ReadsStarted ==
    [c \in 0..MaxClock |-> { t \in ReadsFrom[c] : t.start = t.now }]

\* the read sequences of an iteration that makes no read before the one of
\* main.rs 809: no key press (796-798), or a finished session (329-331)
ReadsIdle ==
    [c \in 0..MaxClock |-> { t \in ReadsFrom[c] : t.start = t.timeout }]

\* the read sequences of a call that does not reach update_wpm: the reads of
\* main.rs 426-427 are not made, and are given the value of the next read
ReadsFromNoWpm ==
    [c \in 0..MaxClock |-> { t \in ReadsFrom[c] : t.wpm_now = t.timeout }]

ReadsStartedNoWpm ==
    [c \in 0..MaxClock |-> { t \in ReadsStarted[c] : t.wpm_now = t.timeout }]

\* handle_key_event(key) on session a calls update_wpm (main.rs 364, 386): the
\* key is the character at the cursor
CallsUpdateWpm(a, key) ==
    /\ ~a.is_finished
    /\ a.current_position < Len(a.target_chars)
    /\ key = a.target_chars[a.current_position + 1]

\* the read sequences of one iteration in which handle_key_event(key) is
\* called on session a, from clock value c: all of them, written once each
CallReads(a, key, c) ==
    IF key = NoEvent \/ a.is_finished THEN ReadsIdle[c]
    ELSE IF CallsUpdateWpm(a, key)
         THEN (IF a.start_time # None THEN ReadsStarted[c] ELSE ReadsFrom[c])
         ELSE (IF a.start_time # None THEN ReadsStartedNoWpm[c] ELSE ReadsFromNoWpm[c])

\* Instant::duration_since saturates at zero
duration_since(later, earlier) == IF later >= earlier THEN later - earlier ELSE 0

----------------------------------------------------------------------------
(* struct KeyMetrics, main.rs 127-139 *)

KeyMetricsNew == [times |-> <<>>, errors |-> 0]

\* HashMap::entry(c).or_insert_with(KeyMetrics::new)
Entry(km, c) == IF c \in DOMAIN km THEN km ELSE km @@ (c :> KeyMetricsNew)

push_time(km, c, d) ==
    LET e == Entry(km, c)
    IN  [e EXCEPT ![c].times = Append(@, d)]

add_error(km, c) ==
    LET e == Entry(km, c)
    IN  [e EXCEPT ![c].errors = @ + 1]

EmptyMap == [c \in {} |-> KeyMetricsNew]

----------------------------------------------------------------------------
(* App *)

start_timing_current_key(a, now) ==
    IF a.current_position < Len(a.target_chars)
    THEN [a EXCEPT !.current_key_start_time = now]
    ELSE a

generate_text(a, text) ==
    [a EXCEPT !.target_chars = text,
              !.correction_attempts = [i \in 1..Len(text) |-> FALSE]]

AppNew(duration_secs, require_correction, text, now) ==
    start_timing_current_key(
        generate_text(
            [target_chars |-> <<>>,
             user_input |-> <<>>,
             current_position |-> 0,
             start_time |-> None,
             wpm_history |-> <<>>,
             wpm_data_points |-> <<>>,
             test_duration |-> duration_secs,
             is_finished |-> FALSE,
             errors |-> 0,
             total_keystrokes |-> 0,
             last_wpm_update |-> None,
             require_correction |-> require_correction,
             correction_attempts |-> <<>>,
             key_metrics |-> EmptyMap,
             last_keystroke_time |-> None,
             current_key_start_time |-> None],
            text),
        now)

\* variant: without the cap of main.rs 443
wpm_value_uncapped(position, elapsed_seconds) ==
    (position * 60 * 100) \div (CHARS_PER_WORD * elapsed_seconds)

\* wpm in hundredths: (current_position / CHARS_PER_WORD) / (elapsed / 60),
\* capped at MAX_WPM_CAP
wpm_value(position, elapsed_seconds) ==
    LET wpm == (position * 60 * 100) \div (CHARS_PER_WORD * elapsed_seconds)
    IN  IF wpm < MAX_WPM_CAP * 100 THEN wpm ELSE MAX_WPM_CAP * 100

\* variant: the warm-up is tested against the update interval
update_wpm_short_warmup(a, now, elapsed_read) ==
    IF a.start_time = None THEN a
    ELSE
        LET elapsed_seconds == duration_since(elapsed_read, a.start_time)
            should_update ==
                IF a.last_wpm_update # None
                THEN duration_since(now, a.last_wpm_update) >= WPM_UPDATE_INTERVAL_SECS
                ELSE elapsed_seconds >= WPM_UPDATE_INTERVAL_SECS
        IN  IF should_update /\ elapsed_seconds >= WPM_UPDATE_INTERVAL_SECS
            THEN LET capped_wpm == wpm_value(a.current_position, elapsed_seconds)
                 IN  [a EXCEPT !.wpm_history = Append(@, capped_wpm),
                               !.wpm_data_points = Append(@, <<elapsed_seconds, capped_wpm>>),
                               !.last_wpm_update = now]
            ELSE a

update_wpm(a, now, elapsed_read) ==
    IF a.start_time = None THEN a
    ELSE
        LET elapsed_seconds == duration_since(elapsed_read, a.start_time)
            should_update ==
                IF a.last_wpm_update # None
                THEN duration_since(now, a.last_wpm_update) >= WPM_UPDATE_INTERVAL_SECS
                ELSE elapsed_seconds >= INITIAL_WPM_DELAY_SECS
        IN  IF should_update /\ elapsed_seconds >= INITIAL_WPM_DELAY_SECS
            THEN LET capped_wpm == wpm_value(a.current_position, elapsed_seconds)
                 IN  [a EXCEPT !.wpm_history = Append(@, capped_wpm),
                               !.wpm_data_points = Append(@, <<elapsed_seconds, capped_wpm>>),
                               !.last_wpm_update = now]
            ELSE a

set_mark(marks, position) ==
    IF position < Len(marks) THEN [marks EXCEPT ![position + 1] = TRUE] ELSE marks

\* main.rs 359-364: the correct character in correction mode
correction_accept(a, c, t) ==
    update_wpm(
        start_timing_current_key(
            [a EXCEPT !.user_input = Append(@, c),
                      !.total_keystrokes = @ + 1,
                      !.current_position = @ + 1],
            t.next_key_start),
        t.wpm_now, t.wpm_elapsed)

\* variant: a wrong character is counted and the cursor advances all the same
correction_reject_advances(a, target_char) ==
    [a EXCEPT !.errors = @ + 1,
              !.total_keystrokes = @ + 1,
              !.key_metrics = add_error(@, target_char),
              !.correction_attempts = set_mark(@, a.current_position),
              !.current_position = @ + 1]

\* variant: a wrong character in correction mode counts as an error but not
\* as a keystroke
correction_reject_uncounted(a, target_char) ==
    [a EXCEPT !.errors = @ + 1,
              !.key_metrics = add_error(@, target_char),
              !.correction_attempts = set_mark(@, a.current_position)]

\* variant: a wrong character in correction mode is not recorded against the
\* expected character
correction_reject_forgets_key(a, target_char) ==
    [a EXCEPT !.errors = @ + 1,
              !.total_keystrokes = @ + 1,
              !.correction_attempts = set_mark(@, a.current_position)]

\* main.rs 365-377: a wrong character in correction mode
correction_reject(a, target_char) ==
    [a EXCEPT !.errors = @ + 1,
              !.total_keystrokes = @ + 1,
              !.key_metrics = add_error(@, target_char),
              !.correction_attempts = set_mark(@, a.current_position)]

\* variant: a wrong character does not move the cursor in normal mode
normal_mode_blocks(a, c, target_char, t) ==
    LET a1 == [a EXCEPT !.user_input = Append(@, c),
                        !.total_keystrokes = @ + 1]
    IN  IF c = target_char
        THEN update_wpm(
                 start_timing_current_key(
                     [a1 EXCEPT !.current_position = @ + 1], t.next_key_start),
                 t.wpm_now, t.wpm_elapsed)
        ELSE [a1 EXCEPT !.errors = @ + 1,
                        !.key_metrics = add_error(@, target_char),
                        !.correction_attempts = set_mark(@, a1.current_position)]

\* variant: the WPM is updated after a wrong character as well
normal_mode_samples_on_error(a, c, target_char, t) ==
    LET a1 == [a EXCEPT !.user_input = Append(@, c),
                        !.total_keystrokes = @ + 1]
    IN  IF c = target_char
        THEN update_wpm(
                 start_timing_current_key(
                     [a1 EXCEPT !.current_position = @ + 1], t.next_key_start),
                 t.wpm_now, t.wpm_elapsed)
        ELSE update_wpm(
                 start_timing_current_key(
                     [a1 EXCEPT !.errors = @ + 1,
                                !.key_metrics = add_error(@, target_char),
                                !.correction_attempts = set_mark(@, a1.current_position),
                                !.current_position = @ + 1],
                     t.next_key_start),
                 t.wpm_now, t.wpm_elapsed)

\* variant: a wrong character is not echoed in normal mode
normal_mode_drops_wrong_echo(a, c, target_char, t) ==
    LET a1 == [a EXCEPT !.total_keystrokes = @ + 1]
    IN  IF c = target_char
        THEN update_wpm(
                 start_timing_current_key(
                     [a1 EXCEPT !.user_input = Append(@, c),
                                !.current_position = @ + 1], t.next_key_start),
                 t.wpm_now, t.wpm_elapsed)
        ELSE start_timing_current_key(
                 [a1 EXCEPT !.errors = @ + 1,
                            !.key_metrics = add_error(@, target_char),
                            !.correction_attempts = set_mark(@, a1.current_position),
                            !.current_position = @ + 1],
                 t.next_key_start)

\* main.rs 378-400: normal mode
normal_mode(a, c, target_char, t) ==
    LET a1 == [a EXCEPT !.user_input = Append(@, c),
                        !.total_keystrokes = @ + 1]
    IN  IF c = target_char
        THEN update_wpm(
                 start_timing_current_key(
                     [a1 EXCEPT !.current_position = @ + 1], t.next_key_start),
                 t.wpm_now, t.wpm_elapsed)
        ELSE start_timing_current_key(
                 [a1 EXCEPT !.errors = @ + 1,
                            !.key_metrics = add_error(@, target_char),
                            !.correction_attempts = set_mark(@, a1.current_position),
                            !.current_position = @ + 1],
                 t.next_key_start)

\* variant: the end of the text is tested with > instead of >=
finish_if_exhausted_strict(a) ==
    IF a.current_position > Len(a.target_chars)
    THEN [a EXCEPT !.is_finished = TRUE]
    ELSE a

\* main.rs 402-406
finish_if_exhausted(a) ==
    IF a.current_position >= Len(a.target_chars)
    THEN [a EXCEPT !.is_finished = TRUE]
    ELSE a

\* variant: the latency sample is recorded for the character typed
handle_char_keyed_by_typed(a, c, t) ==
    IF a.current_position < Len(a.target_chars)
    THEN
        LET target_char == a.target_chars[a.current_position + 1]
            a1 == IF a.current_key_start_time # None
                  THEN [a EXCEPT !.key_metrics =
                            push_time(@, c,
                                      duration_since(t.now, a.current_key_start_time))]
                  ELSE a
            a2 == IF a1.require_correction
                  THEN IF c = target_char
                       THEN correction_accept(a1, c, t)
                       ELSE correction_reject(a1, target_char)
                  ELSE normal_mode(a1, c, target_char, t)
        IN  finish_if_exhausted([a2 EXCEPT !.last_keystroke_time = t.now])
    ELSE a

\* variant: require_correction is ignored, every character is handled as in
\* normal mode
handle_char_ignores_mode(a, c, t) ==
    IF a.current_position < Len(a.target_chars)
    THEN
        LET target_char == a.target_chars[a.current_position + 1]
            a1 == IF a.current_key_start_time # None
                  THEN [a EXCEPT !.key_metrics =
                            push_time(@, target_char,
                                      duration_since(t.now, a.current_key_start_time))]
                  ELSE a
            a2 == normal_mode(a1, c, target_char, t)
        IN  finish_if_exhausted([a2 EXCEPT !.last_keystroke_time = t.now])
    ELSE a

\* variant: the latency is recorded for the correct character only
handle_char_times_correct_only(a, c, t) ==
    IF a.current_position < Len(a.target_chars)
    THEN
        LET target_char == a.target_chars[a.current_position + 1]
            a1 == IF a.current_key_start_time # None /\ c = target_char
                  THEN [a EXCEPT !.key_metrics =
                            push_time(@, target_char,
                                      duration_since(t.now, a.current_key_start_time))]
                  ELSE a
            a2 == IF a1.require_correction
                  THEN IF c = target_char
                       THEN correction_accept(a1, c, t)
                       ELSE correction_reject(a1, target_char)
                  ELSE normal_mode(a1, c, target_char, t)
        IN  finish_if_exhausted([a2 EXCEPT !.last_keystroke_time = t.now])
    ELSE a

\* main.rs 342-408: KeyCode::Char(c)
handle_char(a, c, t) ==
    IF a.current_position < Len(a.target_chars)
    THEN
        LET target_char == a.target_chars[a.current_position + 1]
            a1 == IF a.current_key_start_time # None
                  THEN [a EXCEPT !.key_metrics =
                            push_time(@, target_char,
                                      duration_since(t.now, a.current_key_start_time))]
                  ELSE a
            a2 == IF a1.require_correction
                  THEN IF c = target_char
                       THEN correction_accept(a1, c, t)
                       ELSE correction_reject(a1, target_char)
                  ELSE normal_mode(a1, c, target_char, t)
        IN  finish_if_exhausted([a2 EXCEPT !.last_keystroke_time = t.now])
    ELSE a

\* variant: the cursor moves back without the tests of main.rs 410 and 413
handle_backspace_unguarded(a, t) ==
    start_timing_current_key(
        [a EXCEPT !.user_input = IF @ # <<>> THEN SubSeq(@, 1, Len(@) - 1) ELSE @,
                  !.total_keystrokes = @ + 1,
                  !.current_position = @ - 1,
                  !.last_keystroke_time = t.now],
        t.next_key_start)

\* variant: moving back over a position clears its correction mark
handle_backspace_clears_mark(a, t) ==
    LET a1 == IF a.user_input # <<>>
              THEN LET popped == [a EXCEPT !.user_input = SubSeq(@, 1, Len(@) - 1),
                                           !.total_keystrokes = @ + 1]
                   IN  IF popped.current_position > 0
                       THEN start_timing_current_key(
                                [popped EXCEPT
                                    !.current_position = @ - 1,
                                    !.correction_attempts =
                                        [@ EXCEPT ![popped.current_position] = FALSE]],
                                t.next_key_start)
                       ELSE popped
              ELSE a
    IN  [a1 EXCEPT !.last_keystroke_time = t.now]

\* variant: moving back over a position takes back the latency sample last
\* recorded for its character
handle_backspace_drops_sample(a, t) ==
    LET a1 == IF a.user_input # <<>>
              THEN LET popped == [a EXCEPT !.user_input = SubSeq(@, 1, Len(@) - 1),
                                           !.total_keystrokes = @ + 1]
                       c == a.target_chars[a.current_position]
                   IN  IF popped.current_position > 0
                       THEN start_timing_current_key(
                                [popped EXCEPT
                                    !.current_position = @ - 1,
                                    !.key_metrics =
                                        IF c \in DOMAIN @ /\ @[c].times # <<>>
                                        THEN [@ EXCEPT ![c].times =
                                                  SubSeq(@, 1, Len(@) - 1)]
                                        ELSE @],
                                t.next_key_start)
                       ELSE popped
              ELSE a
    IN  [a1 EXCEPT !.last_keystroke_time = t.now]

\* variant: a backspace restarts the per-key timer also when it removes nothing
handle_backspace_always_restarts(a, t) ==
    LET a1 == IF a.user_input # <<>>
              THEN LET popped == [a EXCEPT !.user_input = SubSeq(@, 1, Len(@) - 1),
                                           !.total_keystrokes = @ + 1]
                   IN  IF popped.current_position > 0
                       THEN [popped EXCEPT !.current_position = @ - 1]
                       ELSE popped
              ELSE a
    IN  start_timing_current_key(
            [a1 EXCEPT !.last_keystroke_time = t.now], t.next_key_start)

\* main.rs 409-419: KeyCode::Backspace
handle_backspace(a, t) ==
    LET a1 == IF a.user_input # <<>>
              THEN LET popped == [a EXCEPT !.user_input = SubSeq(@, 1, Len(@) - 1),
                                           !.total_keystrokes = @ + 1]
                   IN  IF popped.current_position > 0
                       THEN start_timing_current_key(
                                [popped EXCEPT !.current_position = @ - 1],
                                t.next_key_start)
                       ELSE popped
              ELSE a
    IN  [a1 EXCEPT !.last_keystroke_time = t.now]

\* variant: every call stamps start_time anew
start_session_restamps(a, t) ==
    start_timing_current_key(
        [a EXCEPT !.start_time = t.start,
                  !.last_keystroke_time = t.last_key],
        t.key_start)

\* main.rs 333-337: the first key of a session
start_session(a, t) ==
    IF a.start_time = None
    THEN start_timing_current_key(
             [a EXCEPT !.start_time = t.start,
                       !.last_keystroke_time = t.last_key],
             t.key_start)
    ELSE a

\* variant: without the early return of main.rs 329-331
handle_key_event_unguarded(a, key, t) ==
    LET a1 == start_session(a, t)
    IN  CASE key \in Chars -> handle_char(a1, key, t)
          [] key = "Backspace" -> handle_backspace(a1, t)
          [] OTHER -> a1

\* main.rs 328-422
handle_key_event(a, key, t) ==
    IF a.is_finished THEN a
    ELSE LET a1 == start_session(a, t)
         IN  CASE key \in Chars -> handle_char(a1, key, t)
               [] key = "Backspace" -> handle_backspace(a1, t)
               [] OTHER -> a1

\* the outcome of total_keystrokes - errors when errors is the larger one: the
\* usize subtraction panics in a debug build and wraps in a release build, to
\* a count whose ratio is far above 100
Underflow == -2

\* main.rs 464-471, in hundredths of a percent
get_accuracy(a) ==
    IF a.total_keystrokes = 0 THEN 100 * 100
    ELSE IF a.errors > a.total_keystrokes THEN Underflow
    ELSE LET correct_keystrokes == a.total_keystrokes - a.errors
         IN  (correct_keystrokes * 100 * 100) \div a.total_keystrokes

RECURSIVE SumSeq(_)
SumSeq(s) == IF s = <<>> THEN 0 ELSE Head(s) + SumSeq(Tail(s))

\* main.rs 141-148, as_millis() of the result: the sum is taken in nanoseconds
\* and divided by the count, and as_millis drops what is below a millisecond;
\* the times of the model are whole seconds
average_time(metrics) ==
    IF metrics.times = <<>> THEN None
    ELSE (SumSeq(metrics.times) * 1000) \div Len(metrics.times)

SetMin(S) == CHOOSE x \in S : \A y \in S : x <= y

SetMax(S) == CHOOSE x \in S : \A y \in S : x >= y

\* variant: without the two early returns of main.rs 628-630 and 636-638, so
\* that a character is ranked also when it is the only one with a mean
get_key_speed_color_ranks_alone(a, key) ==
    IF key \notin DOMAIN a.key_metrics THEN "DarkGray"
    ELSE
        LET avg_time == average_time(a.key_metrics[key])
            timed == { c \in DOMAIN a.key_metrics :
                           average_time(a.key_metrics[c]) # None }
            all_times == { average_time(a.key_metrics[c]) : c \in timed }
        IN  IF avg_time = None THEN "Gray"
            ELSE
                LET min_time == SetMin(all_times)
                    max_time == SetMax(all_times)
                    time_range == max_time - min_time
                    difference == avg_time - min_time
                IN  IF difference * 100 < 33 * time_range
                    THEN IF difference * 100 < 16 * time_range
                         THEN "Green"
                         ELSE "LightGreen"
                    ELSE IF difference * 100 < 67 * time_range
                    THEN "Yellow"
                    ELSE IF difference * 100 > 83 * time_range
                         THEN "Red"
                         ELSE "LightRed"

\* main.rs 614-665; relative_pos is difference / time_range, its comparisons
\* with 0.16, 0.33, 0.67 and 0.83 are made on the hundredfold
get_key_speed_color(a, key) ==
    IF key \notin DOMAIN a.key_metrics THEN "DarkGray"
    ELSE
        LET avg_time == average_time(a.key_metrics[key])
            timed == { c \in DOMAIN a.key_metrics :
                           average_time(a.key_metrics[c]) # None }
            all_times == { average_time(a.key_metrics[c]) : c \in timed }
        IN  IF avg_time = None THEN "Gray"
            ELSE IF Cardinality(timed) < 2 THEN "Gray"
            ELSE
                LET min_time == SetMin(all_times)
                    max_time == SetMax(all_times)
                    time_range == max_time - min_time
                    difference == avg_time - min_time
                IN  IF time_range = 0 THEN "Gray"
                    ELSE IF difference * 100 < 33 * time_range
                    THEN IF difference * 100 < 16 * time_range
                         THEN "Green"
                         ELSE "LightGreen"
                    ELSE IF difference * 100 < 67 * time_range
                    THEN "Yellow"
                    ELSE IF difference * 100 > 83 * time_range
                         THEN "Red"
                         ELSE "LightRed"

\* variant: the lowest threshold is tested with > instead of >=
get_key_accuracy_color_strict(a, key) ==
    IF key \notin DOMAIN a.key_metrics THEN "DarkGray"
    ELSE
        LET metrics == a.key_metrics[key]
            total_attempts == Len(metrics.times)
            correct == total_attempts - metrics.errors
        IN  IF metrics.times = <<>> THEN "Gray"
            ELSE IF metrics.errors > total_attempts THEN "Underflow"
            ELSE IF correct * 100 >= 95 * total_attempts THEN "Green"
            ELSE IF correct * 100 >= 85 * total_attempts THEN "LightGreen"
            ELSE IF correct * 100 >= 70 * total_attempts THEN "Yellow"
            ELSE IF correct * 100 > 50 * total_attempts THEN "LightRed"
            ELSE "Red"

\* main.rs 667-691; accuracy is (total_attempts - errors) / total_attempts,
\* its comparisons with 0.95, 0.85, 0.70 and 0.50 are made on the hundredfold
\* ("Underflow" stands for the outcome of the usize subtraction with errors
\* above total_attempts: a panic, or a wrapped count)
get_key_accuracy_color(a, key) ==
    IF key \notin DOMAIN a.key_metrics THEN "DarkGray"
    ELSE
        LET metrics == a.key_metrics[key]
            total_attempts == Len(metrics.times)
            correct == total_attempts - metrics.errors
        IN  IF metrics.times = <<>> THEN "Gray"
            ELSE IF metrics.errors > total_attempts THEN "Underflow"
            ELSE IF correct * 100 >= 95 * total_attempts THEN "Green"
            ELSE IF correct * 100 >= 85 * total_attempts THEN "LightGreen"
            ELSE IF correct * 100 >= 70 * total_attempts THEN "Yellow"
            ELSE IF correct * 100 >= 50 * total_attempts THEN "LightRed"
            ELSE "Red"

\* variant: the deadline is tested with > instead of >=
timeout_check_strict(a, now) ==
    IF a.start_time # None /\ duration_since(now, a.start_time) > a.test_duration
    THEN [a EXCEPT !.is_finished = TRUE]
    ELSE a

\* main.rs 807-812: the timeout check of the typing loop
timeout_check(a, now) ==
    IF a.start_time # None /\ duration_since(now, a.start_time) >= a.test_duration
    THEN [a EXCEPT !.is_finished = TRUE]
    ELSE a

\* variant: restart keeps the per-key metrics of the session before
restart_keeps_metrics(a, text, now) ==
    start_timing_current_key(
        generate_text(
            [a EXCEPT !.user_input = <<>>,
                      !.current_position = 0,
                      !.start_time = None,
                      !.wpm_history = <<>>,
                      !.wpm_data_points = <<>>,
                      !.is_finished = FALSE,
                      !.errors = 0,
                      !.total_keystrokes = 0,
                      !.last_wpm_update = None,
                      !.correction_attempts = <<>>,
                      !.target_chars = <<>>,
                      !.last_keystroke_time = None,
                      !.current_key_start_time = None],
            text),
        now)

\* main.rs 540-557
restart(a, text, now) ==
    start_timing_current_key(
        generate_text(
            [a EXCEPT !.user_input = <<>>,
                      !.current_position = 0,
                      !.start_time = None,
                      !.wpm_history = <<>>,
                      !.wpm_data_points = <<>>,
                      !.is_finished = FALSE,
                      !.errors = 0,
                      !.total_keystrokes = 0,
                      !.last_wpm_update = None,
                      !.correction_attempts = <<>>,
                      !.target_chars = <<>>,
                      !.key_metrics = EmptyMap,
                      !.last_keystroke_time = None,
                      !.current_key_start_time = None],
            text),
        now)

----------------------------------------------------------------------------
(* History variables *)

\* the key is a printable character that differs from the expected one and
\* handle_key_event compares it (main.rs 343, 359, 383)
Mismatch(a, key) ==
    /\ ~a.is_finished
    /\ key \in Chars
    /\ a.current_position < Len(a.target_chars)
    /\ key # a.target_chars[a.current_position + 1]

\* the character the cursor is at
Expected(a) == a.target_chars[a.current_position + 1]

\* a printable key would be compared with the target (main.rs 329, 343)
Typing(a) == ~a.is_finished /\ a.current_position < Len(a.target_chars)

NotSaved == [calls |-> 0, warned |-> FALSE]

NoKeyYet == [key |-> NoEvent, fin |-> FALSE, pos |-> 0]

\* the arm of the match of main.rs 341 a key code takes
KeyKind(key) ==
    IF key \in Chars THEN "Char" ELSE IF key = "Backspace" THEN "Backspace" ELSE "Other"

\* what an operation met: its kind, and is_finished and the cursor before it
Met(kind) ==
    [key |-> kind, fin |-> app.is_finished, pos |-> app.current_position]

\* the model stops counting keys at MaxKeys and starts no session that could
\* not reach its deadline before the clock stops
WithinBounds(t) ==
    /\ app.is_finished \/ app.total_keystrokes < MaxKeys
    /\ (~app.is_finished /\ app.start_time = None)
           => t.start + app.test_duration <= MaxClock

----------------------------------------------------------------------------
(* One session of the engine: the operations of App, called one at a time *)

Init ==
    /\ \E rc \in BOOLEAN, text \in Texts :
           app = AppNew(TestDuration, rc, text, 0)
    /\ clock = 0
    /\ screen = "typing"
    /\ saves = NotSaved
    /\ session = 0
    /\ mistyped = {}
    /\ last = NoKeyYet

\* App::handle_key_event with the given key
KeyEventOf(key) ==
    /\ last' = Met(KeyKind(key))
    /\ mistyped' = IF Mismatch(app, key)
                   THEN mistyped \cup {app.current_position}
                   ELSE mistyped
    /\ UNCHANGED <<screen, saves, session>>
    /\ \E t \in CallReads(app, key, clock) :
        /\ WithinBounds(t)
        /\ clock' = t.timeout
        /\ app' = handle_key_event(app, key, t)

KeyEvent == \E key \in Keys \ {"Esc"} : KeyEventOf(key)

\* the timeout check, run on its own
TimeoutCheck ==
    /\ app' = timeout_check(app, clock)
    /\ last' = Met("Timeout")
    /\ UNCHANGED <<clock, screen, saves, session, mistyped>>

\* time passes
Tick ==
    /\ clock < MaxClock
    /\ clock' = clock + 1
    /\ UNCHANGED <<app, screen, saves, session, mistyped, last>>

Next == KeyEvent \/ TimeoutCheck \/ Tick

Spec == Init /\ [][Next]_vars

----------------------------------------------------------------------------
(* The control loop run_app, main.rs 790-843 *)

\* App::save_history is called; it may fail, which prints a warning
save_history(s, ok) ==
    [calls |-> s.calls + 1, warned |-> ~ok]

\* variant: the timeout check is made only in an iteration that read a key
TypingLoopOf_timeout_on_key(key) ==
    /\ screen = "typing"
    /\ \E t \in CallReads(app, key, clock), ok \in BOOLEAN :
        IF key = "Esc"
        THEN /\ screen' = "exited"
             /\ UNCHANGED <<app, clock, saves, session, mistyped, last>>
        ELSE LET a1 == IF key = NoEvent THEN app
                       ELSE handle_key_event(app, key, t)
                 a2 == IF key = NoEvent THEN a1 ELSE timeout_check(a1, t.timeout)
             IN  /\ key # NoEvent => WithinBounds(t)
                 /\ clock' = t.timeout
                 /\ app' = a2
                 /\ mistyped' = IF key # NoEvent /\ Mismatch(app, key)
                                THEN mistyped \cup {app.current_position}
                                ELSE mistyped
                 /\ last' = IF key # NoEvent THEN Met(KeyKind(key)) ELSE last
                 /\ IF a2.is_finished
                    THEN /\ saves' = save_history(saves, ok)
                         /\ screen' = "results"
                    ELSE UNCHANGED <<saves, screen>>
                 /\ UNCHANGED session

\* variant: Esc is handed to handle_key_event like any other key before the
\* loop is left
TypingLoopOf_esc_applied(key) ==
    /\ screen = "typing"
    /\ \E t \in CallReads(app, key, clock), ok \in BOOLEAN :
        IF key = "Esc"
        THEN /\ screen' = "exited"
             /\ app' = handle_key_event(app, key, t)
             /\ UNCHANGED <<clock, saves, session, mistyped, last>>
        ELSE LET a1 == IF key = NoEvent THEN app
                       ELSE handle_key_event(app, key, t)
                 a2 == timeout_check(a1, t.timeout)
             IN  /\ key # NoEvent => WithinBounds(t)
                 /\ clock' = t.timeout
                 /\ app' = a2
                 /\ mistyped' = IF key # NoEvent /\ Mismatch(app, key)
                                THEN mistyped \cup {app.current_position}
                                ELSE mistyped
                 /\ last' = IF key # NoEvent THEN Met(KeyKind(key)) ELSE last
                 /\ IF a2.is_finished
                    THEN /\ saves' = save_history(saves, ok)
                         /\ screen' = "results"
                    ELSE UNCHANGED <<saves, screen>>
                 /\ UNCHANGED session

\* variant: the history is written only for a session that the key itself
\* finished, not for one that the timeout check of the iteration finished
TypingLoopOf_saves_after_key_only(key) ==
    /\ screen = "typing"
    /\ \E t \in CallReads(app, key, clock), ok \in BOOLEAN :
        IF key = "Esc"
        THEN /\ screen' = "exited"
             /\ UNCHANGED <<app, clock, saves, session, mistyped, last>>
        ELSE LET a1 == IF key = NoEvent THEN app
                       ELSE handle_key_event(app, key, t)
                 a2 == timeout_check(a1, t.timeout)
             IN  /\ key # NoEvent => WithinBounds(t)
                 /\ clock' = t.timeout
                 /\ app' = a2
                 /\ mistyped' = IF key # NoEvent /\ Mismatch(app, key)
                                THEN mistyped \cup {app.current_position}
                                ELSE mistyped
                 /\ last' = IF key # NoEvent THEN Met(KeyKind(key)) ELSE last
                 /\ IF a2.is_finished
                    THEN /\ saves' = IF a1.is_finished
                                     THEN save_history(saves, ok) ELSE saves
                         /\ screen' = "results"
                    ELSE UNCHANGED <<saves, screen>>
                 /\ UNCHANGED session

\* variant: the timeout check is made at the top of the iteration, before the
\* key is handed to handle_key_event
TypingLoopOf_timeout_first(key) ==
    /\ screen = "typing"
    /\ \E t \in CallReads(app, key, clock), ok \in BOOLEAN :
        IF key = "Esc"
        THEN /\ screen' = "exited"
             /\ UNCHANGED <<app, clock, saves, session, mistyped, last>>
        ELSE LET a1 == timeout_check(app, t.start)
                 a2 == IF key = NoEvent THEN a1
                       ELSE handle_key_event(a1, key, t)
             IN  /\ key # NoEvent => WithinBounds(t)
                 /\ clock' = t.timeout
                 /\ app' = a2
                 /\ mistyped' = IF key # NoEvent /\ Mismatch(app, key)
                                THEN mistyped \cup {app.current_position}
                                ELSE mistyped
                 /\ last' = IF key # NoEvent THEN Met(KeyKind(key)) ELSE last
                 /\ IF a2.is_finished
                    THEN /\ saves' = save_history(saves, ok)
                         /\ screen' = "results"
                    ELSE UNCHANGED <<saves, screen>>
                 /\ UNCHANGED session

\* variant: a failed history write ends run_app
TypingLoopOf_quits_on_failed_save(key) ==
    /\ screen = "typing"
    /\ \E t \in CallReads(app, key, clock), ok \in BOOLEAN :
        IF key = "Esc"
        THEN /\ screen' = "exited"
             /\ UNCHANGED <<app, clock, saves, session, mistyped, last>>
        ELSE LET a1 == IF key = NoEvent THEN app
                       ELSE handle_key_event(app, key, t)
                 a2 == timeout_check(a1, t.timeout)
             IN  /\ key # NoEvent => WithinBounds(t)
                 /\ clock' = t.timeout
                 /\ app' = a2
                 /\ mistyped' = IF key # NoEvent /\ Mismatch(app, key)
                                THEN mistyped \cup {app.current_position}
                                ELSE mistyped
                 /\ last' = IF key # NoEvent THEN Met(KeyKind(key)) ELSE last
                 /\ IF a2.is_finished
                    THEN /\ saves' = save_history(saves, ok)
                         /\ screen' = IF ok THEN "results" ELSE "exited"
                    ELSE UNCHANGED <<saves, screen>>
                 /\ UNCHANGED session

\* one iteration of the typing loop, main.rs 793-821, with the event polled
TypingLoopOf(key) ==
    /\ screen = "typing"
    /\ \E t \in CallReads(app, key, clock), ok \in BOOLEAN :
        IF key = "Esc"
        THEN /\ screen' = "exited"
             /\ UNCHANGED <<app, clock, saves, session, mistyped, last>>
        ELSE LET a1 == IF key = NoEvent THEN app
                       ELSE handle_key_event(app, key, t)
                 a2 == timeout_check(a1, t.timeout)
             IN  /\ key # NoEvent => WithinBounds(t)
                 /\ clock' = t.timeout
                 /\ app' = a2
                 /\ mistyped' = IF key # NoEvent /\ Mismatch(app, key)
                                THEN mistyped \cup {app.current_position}
                                ELSE mistyped
                 /\ last' = IF key # NoEvent THEN Met(KeyKind(key)) ELSE last
                 /\ IF a2.is_finished
                    THEN /\ saves' = save_history(saves, ok)
                         /\ screen' = "results"
                    ELSE UNCHANGED <<saves, screen>>
                 /\ UNCHANGED session

TypingLoop == \E key \in Keys \cup {NoEvent} : TypingLoopOf(key)

\* variant: any key but Esc leaves the results screen
ResultsLoopOf_any_key(key) ==
    /\ screen = "results"
    /\ CASE key = "Esc" ->
              /\ screen' = "exited"
              /\ UNCHANGED <<app, clock, saves, session, mistyped, last>>
         [] key # NoEvent /\ key # "Esc" ->
              /\ session < MaxSessions
              /\ \E text \in Texts : app' = restart(app, text, clock)
              /\ session' = session + 1
              /\ mistyped' = {}
              /\ last' = [key |-> key, fin |-> app.is_finished, pos |-> 0]
              /\ saves' = NotSaved
              /\ screen' = "typing"
              /\ UNCHANGED clock
         [] OTHER ->
              UNCHANGED <<app, clock, screen, saves, session, mistyped, last>>

\* one iteration of the results loop, main.rs 824-841, with the event polled
ResultsLoopOf(key) ==
    /\ screen = "results"
    /\ CASE key = "Esc" ->
              /\ screen' = "exited"
              /\ UNCHANGED <<app, clock, saves, session, mistyped, last>>
         [] key = "Enter" ->
              /\ session < MaxSessions
              /\ \E text \in Texts : app' = restart(app, text, clock)
              /\ session' = session + 1
              /\ mistyped' = {}
              /\ last' = [key |-> key, fin |-> app.is_finished, pos |-> 0]
              /\ saves' = NotSaved
              /\ screen' = "typing"
              /\ UNCHANGED clock
         [] OTHER ->
              UNCHANGED <<app, clock, screen, saves, session, mistyped, last>>

ResultsLoop == \E key \in Keys \cup {NoEvent} : ResultsLoopOf(key)

RunNext == TypingLoop \/ ResultsLoop \/ Tick

RunSpec == Init /\ [][RunNext]_vars

\* the clock advances and the typing loop keeps iterating, also when no key
\* arrives: event::poll returns after POLL_INTERVAL_MS at the latest
LiveSpec == RunSpec /\ WF_vars(Tick) /\ WF_vars(TypingLoopOf(NoEvent))

----------------------------------------------------------------------------
(* App::update_wpm over long texts: a burst of correct keys, then the sampler *)

\* a target text long enough for the cap of main.rs 443 to matter
LongText == [i \in 1..MaxCursor |-> "a"]

WpmInit ==
    /\ \E rc \in BOOLEAN : app = AppNew(TestDuration, rc, LongText, 0)
    /\ clock = 0
    /\ screen = "typing"
    /\ saves = NotSaved
    /\ session = 0
    /\ mistyped = {}
    /\ last = NoKeyYet

\* App::handle_key_event with the expected character, within the second the
\* session began in
TypeAhead ==
    /\ clock = 0
    /\ Typing(app)
    /\ last' = Met("Char")
    /\ \E t \in Reads(clock) :
        /\ t.timeout = clock
        /\ app' = handle_key_event(app, Expected(app), t)
    /\ UNCHANGED <<clock, screen, saves, session, mistyped>>

\* App::update_wpm, called at the current cursor
UpdateWpm ==
    /\ \E t \in Reads(clock) :
        /\ clock' = t.wpm_elapsed
        /\ app' = update_wpm(app, t.wpm_now, t.wpm_elapsed)
    /\ UNCHANGED <<screen, saves, session, mistyped, last>>

WpmNext == TypeAhead \/ UpdateWpm \/ Tick

WpmSpec == WpmInit /\ [][WpmNext]_vars

----------------------------------------------------------------------------
(* The heatmap colours over a text with repeated characters *)

\* a target text whose characters collect one, five and six latency samples
HeatText == <<"a", "b", "b", "b", "b", "b", "c", "c", "c", "c", "c", "c">>

HeatInit ==
    /\ \E rc \in BOOLEAN : app = AppNew(TestDuration, rc, HeatText, 0)
    /\ clock = 0
    /\ screen = "typing"
    /\ saves = NotSaved
    /\ session = 0
    /\ mistyped = {}
    /\ last = NoKeyYet

\* App::handle_key_event with the expected character
HeatKey ==
    /\ Typing(app)
    /\ last' = Met("Char")
    /\ UNCHANGED <<screen, saves, session, mistyped>>
    /\ \E t \in Reads(clock) :
        /\ clock' = t.timeout
        /\ app' = handle_key_event(app, Expected(app), t)

HeatNext == HeatKey \/ Tick

HeatSpec == HeatInit /\ [][HeatNext]_vars

----------------------------------------------------------------------------
(* The accuracy colours over a text of one repeated character *)

\* a target text whose character collects up to MaxAttempts samples
RepeatText == [i \in 1..MaxRepeat |-> "a"]

RepeatInit ==
    /\ \E rc \in BOOLEAN : app = AppNew(TestDuration, rc, RepeatText, 0)
    /\ clock = 0
    /\ screen = "typing"
    /\ saves = NotSaved
    /\ session = 0
    /\ mistyped = {}
    /\ last = NoKeyYet

\* App::handle_key_event with a printable key, right or wrong, within the
\* second the session began in
RepeatKeyOf(key) ==
    /\ clock = 0
    /\ Typing(app)
    /\ app.total_keystrokes < MaxAttempts
    /\ last' = Met("Char")
    /\ mistyped' = IF Mismatch(app, key)
                   THEN mistyped \cup {app.current_position}
                   ELSE mistyped
    /\ UNCHANGED <<clock, screen, saves, session>>
    /\ \E t \in Reads(clock) :
        /\ t.timeout = clock
        /\ app' = handle_key_event(app, key, t)

RepeatKey == \E key \in {"a", "x"} : RepeatKeyOf(key)

RepeatNext == RepeatKey \/ Tick

RepeatSpec == RepeatInit /\ [][RepeatNext]_vars

----------------------------------------------------------------------------
(* Claims *)

ErrorsOf(a, c) == IF c \in DOMAIN a.key_metrics THEN a.key_metrics[c].errors ELSE 0

\* the step is a call of handle_key_event with this key
IsKeyEvent(key) == KeyEventOf(key)

\* C1: after every handle_key_event call the cursor is within
\* 0..len(target_chars); the target is indexed at the cursor only under the
\* guard cursor < len (an index outside the text would stop the evaluation of
\* handle_char).
C1_CursorInBounds ==
    /\ 0 <= app.current_position
    /\ app.current_position <= Len(app.target_chars)
    /\ (last.key = "Char" /\ ~last.fin) => last.pos < Len(app.target_chars)

\* a character key has been applied and the cursor stands at the end of the text
C1_Witness ==
    /\ last.key = "Char"
    /\ ~last.fin
    /\ app.current_position = Len(app.target_chars)

\* C2: in correction mode a printable key applied to an unfinished session with
\* cursor < len advances the cursor by one iff it equals the expected
\* character; a mismatch leaves the cursor where it is and adds exactly one to
\* errors and to the error count of the expected character's KeyMetrics.
C2_CorrectionMode ==
    [][\A c \in Chars :
          (app.require_correction /\ Typing(app) /\ IsKeyEvent(c)) =>
              /\ (app'.current_position = app.current_position + 1) <=> (c = Expected(app))
              /\ c # Expected(app) =>
                    /\ app'.current_position = app.current_position
                    /\ app'.errors = app.errors + 1
                    /\ ErrorsOf(app', Expected(app)) = ErrorsOf(app, Expected(app)) + 1
                    /\ \A d \in Chars \ {Expected(app)} :
                           ErrorsOf(app', d) = ErrorsOf(app, d)
              /\ c = Expected(app) =>
                    /\ app'.errors = app.errors
                    /\ \A d \in Chars : ErrorsOf(app', d) = ErrorsOf(app, d)]_vars

\* scenario B: target "ab", a wrong key, then a, then b
C2_Witness ==
    /\ app.require_correction
    /\ app.target_chars = <<"a", "b">>
    /\ app.user_input = <<"a", "b">>
    /\ app.total_keystrokes = 3
    /\ app.current_position = 2
    /\ app.errors = 1
    /\ app.correction_attempts = <<TRUE, FALSE>>
    /\ app.is_finished
    /\ ErrorsOf(app, "a") = 1

\* C3: in normal mode a printable key applied to an unfinished session with
\* cursor < len advances the cursor by one whether it matches or not; a
\* mismatch also adds one to errors and sets the correction mark of the
\* position the cursor had before.
C3_NormalMode ==
    [][\A c \in Chars :
          (~app.require_correction /\ Typing(app) /\ IsKeyEvent(c)) =>
              /\ app'.current_position = app.current_position + 1
              /\ app'.user_input = Append(app.user_input, c)
              /\ c # Expected(app) =>
                    /\ app'.errors = app.errors + 1
                    /\ app'.correction_attempts =
                           [app.correction_attempts EXCEPT ![app.current_position + 1] = TRUE]
              /\ c = Expected(app) =>
                    /\ app'.errors = app.errors
                    /\ app'.correction_attempts = app.correction_attempts]_vars

\* scenario A: target "abc", keys a, x, c
C3_Witness ==
    /\ ~app.require_correction
    /\ app.target_chars = <<"a", "b", "c">>
    /\ app.user_input = <<"a", "x", "c">>
    /\ app.current_position = 3
    /\ app.errors = 1
    /\ app.correction_attempts = <<FALSE, TRUE, FALSE>>
    /\ app.is_finished

\* C4: correction_attempts[i] is true iff a mismatched key was applied in this
\* session while the cursor was at i, in both modes and with backspaces; no
\* step of a session clears a mark.
C4_MarksIffMistyped ==
    /\ [](/\ Len(app.correction_attempts) = Len(app.target_chars)
          /\ \A i \in 1..Len(app.correction_attempts) :
                 app.correction_attempts[i] <=> (i - 1) \in mistyped)
    /\ [][\A i \in 1..Len(app.correction_attempts) :
              app.correction_attempts[i] => app'.correction_attempts[i]]_vars

\* normal mode: position 0 was mistyped, taken back and typed correctly; its
\* mark is still set
C4_Witness ==
    /\ ~app.require_correction
    /\ app.user_input = <<"a">>
    /\ app.current_position = 1
    /\ app.correction_attempts[1]
    /\ ~app.correction_attempts[2]
    /\ mistyped = {0}

\* C5: handle_key_event on a finished session changes no field of the session,
\* whatever the key.  (The steps that leave a key in `last` are the calls of
\* handle_key_event, and the ticks of the clock after one.)
C5_FinishedIsNoOp ==
    [][(app.is_finished /\ last'.key \in {"Char", "Backspace", "Other"})
          => app' = app]_vars

\* a character key was applied to a session that the timeout had finished
\* before the end of the text, where the key would otherwise have counted
C5_Witness ==
    /\ last.key = "Char"
    /\ last.fin
    /\ app.is_finished
    /\ app.current_position < Len(app.target_chars)

\* C6: with a non-empty target, cursor = len(target_chars) implies is_finished:
\* the key that moves the cursor onto the end sets is_finished in the same
\* call, in both modes and also when it is a mismatch in normal mode.
C6_ExhaustedIsFinished ==
    (Len(app.target_chars) > 0 /\ app.current_position = Len(app.target_chars))
        => app.is_finished

\* normal mode: the key that reached the end of the text was a mismatch
C6_Witness ==
    /\ ~app.require_correction
    /\ last.key = "Char"
    /\ ~last.fin
    /\ last.pos = Len(app.target_chars) - 1
    /\ app.current_position = Len(app.target_chars)
    /\ app.user_input[Len(app.target_chars)] # app.target_chars[Len(app.target_chars)]
    /\ app.is_finished

\* C7: within run_app is_finished goes from true to false only by restart, and
\* restart runs only on the results screen, for a finished session, on Enter.
C7_FinishedMonotonic ==
    /\ [][(app.is_finished /\ ~app'.is_finished) =>
              (screen = "results" /\ session' = session + 1 /\ last'.key = "Enter")]_vars
    /\ [][session' # session =>
              /\ app.is_finished
              /\ screen = "results"
              /\ last'.key = "Enter"
              /\ \E text \in Texts : app' = restart(app, text, clock)]_vars

\* a session was restarted from the results screen and the new one is running
C7_Witness ==
    /\ session = 1
    /\ screen = "typing"
    /\ ~app.is_finished
    /\ app.start_time # None
    /\ last.key = "Char"

\* C8: the timeout check sets is_finished when start_time is set and
\* now - start_time >= test_duration, also with the cursor before the end of
\* the text, and changes nothing else; otherwise it changes nothing.
C8_TimeoutCheck ==
    [][(last'.key = "Timeout" /\ clock' = clock) =>
          IF app.start_time # None /\ clock - app.start_time >= app.test_duration
          THEN app' = [app EXCEPT !.is_finished = TRUE]
          ELSE app' = app]_vars

\* the timeout check finished a session whose cursor had not reached the end
C8_Witness ==
    /\ last.key = "Timeout"
    /\ ~last.fin
    /\ app.is_finished
    /\ app.current_position < Len(app.target_chars)
    /\ clock - app.start_time = app.test_duration

\* C9: once start_time is set, if the loop keeps iterating, the clock advances
\* and no quit occurs, the session is eventually finished, also when no more
\* keys arrive and the cursor never reaches the end of the text.
C9_EventuallyFinished ==
    (app.start_time # None /\ screen = "typing")
        ~> (app.is_finished \/ screen = "exited")

\* a session started by a key that types nothing was ended by the timeout
C9_Witness ==
    /\ app.start_time # None
    /\ app.is_finished
    /\ screen = "results"
    /\ app.total_keystrokes = 0
    /\ app.current_position = 0

\* C10: a backspace changes neither errors, correction_attempts, key_metrics
\* nor the WPM samples; with a non-empty echo it removes the last echo
\* character, adds one to total_keystrokes and moves the cursor back by one.
C10_BackspaceFrame ==
    [][IsKeyEvent("Backspace") =>
          /\ app'.errors = app.errors
          /\ app'.correction_attempts = app.correction_attempts
          /\ app'.key_metrics = app.key_metrics
          /\ app'.wpm_history = app.wpm_history
          /\ app'.wpm_data_points = app.wpm_data_points
          /\ app'.last_wpm_update = app.last_wpm_update
          /\ app'.is_finished = app.is_finished
          /\ app'.target_chars = app.target_chars
          /\ (~app.is_finished /\ app.user_input # <<>>) =>
                /\ app'.user_input = SubSeq(app.user_input, 1, Len(app.user_input) - 1)
                /\ app'.total_keystrokes = app.total_keystrokes + 1
                /\ app'.current_position = app.current_position - 1
          /\ (~app.is_finished /\ app.user_input = <<>>) =>
                /\ app'.user_input = <<>>
                /\ app'.total_keystrokes = app.total_keystrokes
                /\ app'.current_position = app.current_position]_vars

\* scenario C: target "ab", key a, then backspace
C10_Witness ==
    /\ app.target_chars = <<"a", "b">>
    /\ last.key = "Backspace"
    /\ last.pos = 1
    /\ app.current_position = 0
    /\ app.user_input = <<>>
    /\ app.errors = 0
    /\ app.total_keystrokes = 2
    /\ "a" \in DOMAIN app.key_metrics
    /\ Len(app.key_metrics["a"].times) = 1

\* C11: errors never exceeds total_keystrokes, so get_accuracy subtracts
\* without underflow; it is 100 when no keystroke was counted and otherwise
\* (total_keystrokes - errors) / total_keystrokes * 100, within 0..100.
C11_Accuracy ==
    /\ app.errors <= app.total_keystrokes
    /\ get_accuracy(app) # Underflow
    /\ get_accuracy(app) \in 0..(100 * 100)
    /\ app.total_keystrokes = 0 => get_accuracy(app) = 100 * 100
    /\ app.total_keystrokes > 0 =>
          /\ get_accuracy(app) * app.total_keystrokes
                 <= (app.total_keystrokes - app.errors) * 100 * 100
          /\ (get_accuracy(app) + 1) * app.total_keystrokes
                 > (app.total_keystrokes - app.errors) * 100 * 100

\* three keystrokes, one of them wrong: 66.66 percent
C11_Witness ==
    /\ app.total_keystrokes = 3
    /\ app.errors = 1
    /\ get_accuracy(app) = 6666

\* C12: every entry of wpm_data_points has an elapsed time of at least
\* INITIAL_WPM_DELAY_SECS, and a session whose clock has not yet reached
\* start_time + INITIAL_WPM_DELAY_SECS has no sample, whatever keys were typed.
C12_WarmUp ==
    /\ \A i \in 1..Len(app.wpm_data_points) :
           app.wpm_data_points[i][1] >= INITIAL_WPM_DELAY_SECS
    /\ Len(app.wpm_history) = Len(app.wpm_data_points)
    /\ (app.start_time = None \/ clock - app.start_time < INITIAL_WPM_DELAY_SECS)
           => app.wpm_data_points = <<>>

\* the first sample was taken by a correct key exactly at the end of the warm-up
C12_Witness ==
    /\ Len(app.wpm_data_points) = 1
    /\ app.wpm_data_points[1][1] = INITIAL_WPM_DELAY_SECS
    /\ app.current_position > 0

\* C13: the elapsed times of any two consecutive entries of wpm_data_points
\* differ by at least WPM_UPDATE_INTERVAL_SECS, so they are strictly
\* increasing.
C13_RateLimit ==
    \A i \in 1..(Len(app.wpm_data_points) - 1) :
        app.wpm_data_points[i + 1][1] - app.wpm_data_points[i][1]
            >= WPM_UPDATE_INTERVAL_SECS

\* C14: every WPM sample lies in 0..MAX_WPM_CAP, and the sample a call appends
\* is (cursor / CHARS_PER_WORD) / (elapsed / 60), for the cursor the call
\* leaves, when that is below MAX_WPM_CAP and MAX_WPM_CAP otherwise; the
\* elapsed time it divides by is positive.
C14_SampleRange ==
    [][/\ \A i \in 1..Len(app'.wpm_data_points) :
              /\ app'.wpm_data_points[i][2] \in 0..(MAX_WPM_CAP * 100)
              /\ app'.wpm_history[i] = app'.wpm_data_points[i][2]
       /\ Len(app'.wpm_data_points) > Len(app.wpm_data_points) =>
              LET sample == app'.wpm_data_points[Len(app'.wpm_data_points)]
                  elapsed_seconds == sample[1]
                  wpm == sample[2]
                  chars_per_minute == app'.current_position * 60 * 100
                  per_wpm == CHARS_PER_WORD * elapsed_seconds
              IN  /\ elapsed_seconds > 0
                  /\ IF chars_per_minute >= MAX_WPM_CAP * 100 * per_wpm
                     THEN wpm = MAX_WPM_CAP * 100
                     ELSE /\ wpm * per_wpm <= chars_per_minute
                          /\ (wpm + 1) * per_wpm > chars_per_minute]_vars

\* a sample the cap has cut down: 90 characters in 2 seconds are 540 wpm
C14_Witness ==
    /\ Len(app.wpm_data_points) >= 1
    /\ app.wpm_data_points[1][2] = MAX_WPM_CAP * 100
    /\ app.current_position * 60
           > MAX_WPM_CAP * CHARS_PER_WORD * app.wpm_data_points[1][1]

\* the target positions before the cursor that hold the character typed there
CorrectlyAdvanced(a) ==
    Cardinality({ i \in 1..a.current_position :
                      i <= Len(a.user_input) /\ a.user_input[i] = a.target_chars[i] })

\* C15: the character count of every WPM sample is the number of correctly
\* advanced characters: a position the cursor passed with a mismatched key
\* (normal mode) is not counted in the sample a later correct key appends.
C15_CountsCorrectOnly ==
    [][Len(app'.wpm_data_points) > Len(app.wpm_data_points) =>
           LET sample == app'.wpm_data_points[Len(app'.wpm_data_points)]
           IN  sample[2] = wpm_value(CorrectlyAdvanced(app'), sample[1])]_vars

TimesOf(a, c) == IF c \in DOMAIN a.key_metrics THEN a.key_metrics[c].times ELSE <<>>

\* C16: a printable key applied to an unfinished session with cursor < len,
\* correct or not, appends exactly one latency sample to the KeyMetrics of the
\* expected character: the time from the start of the per-key timer to the
\* key, which is not negative.  No other character's KeyMetrics is created or
\* changed, the typed character's included when it is not the expected one.
C16_LatencySample ==
    [][\A c \in Chars :
          (Typing(app) /\ IsKeyEvent(c)) =>
              LET expected == Expected(app)
                  before == TimesOf(app, expected)
                  after == TimesOf(app', expected)
              IN  /\ Len(after) = Len(before) + 1
                  /\ SubSeq(after, 1, Len(before)) = before
                  /\ after[Len(after)] >= 0
                  /\ IF app.start_time # None
                     THEN after[Len(after)] =
                              app'.last_keystroke_time - app.current_key_start_time
                     ELSE after[Len(after)] <=
                              app'.last_keystroke_time - app'.start_time
                  /\ DOMAIN app'.key_metrics = DOMAIN app.key_metrics \cup {expected}
                  /\ \A other \in DOMAIN app'.key_metrics \ {expected} :
                         app'.key_metrics[other] = app.key_metrics[other]
                  /\ (c # expected /\ c \notin DOMAIN app.key_metrics)
                         => c \notin DOMAIN app'.key_metrics]_vars

\* the first character of the text was mistyped one second after the previous
\* key: the sample is the expected character's, the typed one has no KeyMetrics
C16_Witness ==
    /\ last.key = "Char"
    /\ last.pos = 0
    /\ 0 \in mistyped
    /\ DOMAIN app.key_metrics = {"a"}
    /\ Len(app.key_metrics["a"].times) = 2
    /\ app.key_metrics["a"].times[2] = 1
    /\ app.key_metrics["a"].errors >= 1

\* C17: start_time is None at construction and stays None until
\* handle_key_event is first called on the unfinished session; that call sets
\* it to the time of the call for every key (a backspace on an empty echo and
\* a key that types nothing included), and no later step of the session
\* changes it.
C17_StartTime ==
    /\ app.start_time = None
    /\ [][/\ app.start_time # None => app'.start_time = app.start_time
          /\ app.start_time = None =>
                 /\ ~app.is_finished
                 /\ app.total_keystrokes = 0
                 /\ \A key \in Keys \ {"Esc"} :
                        IsKeyEvent(key) =>
                            /\ app'.start_time # None
                            /\ clock <= app'.start_time
                            /\ app'.start_time <= clock'
                 /\ (\A key \in Keys \ {"Esc"} : ~IsKeyEvent(key))
                        => app'.start_time = None]_vars

\* a backspace on the empty echo started the session and counted no keystroke
C17_Witness ==
    /\ last.key = "Backspace"
    /\ app.start_time = 1
    /\ app.total_keystrokes = 0
    /\ app.user_input = <<>>
    /\ clock = 2

\* C18: the step that restarts leaves a session that is new as a whole: cursor
\* 0, empty echo, no keystrokes, no errors, start_time None, not finished, no
\* KeyMetrics, no WPM sample and no last sample time, and correction marks
\* that are all false and as many as the new target text has characters.  It
\* is the state App::new gives for that text, mode and duration.
C18_RestartIsNew ==
    [][(screen = "results" /\ screen' = "typing") =>
          /\ app'.current_position = 0
          /\ app'.user_input = <<>>
          /\ app'.total_keystrokes = 0
          /\ app'.errors = 0
          /\ app'.start_time = None
          /\ ~app'.is_finished
          /\ DOMAIN app'.key_metrics = {}
          /\ app'.wpm_history = <<>>
          /\ app'.wpm_data_points = <<>>
          /\ app'.last_wpm_update = None
          /\ Len(app'.correction_attempts) = Len(app'.target_chars)
          /\ \A i \in 1..Len(app'.correction_attempts) : ~app'.correction_attempts[i]
          /\ app'.target_chars \in Texts
          /\ app' = AppNew(app.test_duration, app.require_correction,
                           app'.target_chars, clock)]_vars

\* a session that ended at 2 s was restarted with the three-character text
C18_Witness ==
    /\ session = 1
    /\ last.key = "Enter"
    /\ screen = "typing"
    /\ clock = 2
    /\ app = AppNew(TestDuration, app.require_correction, <<"a", "b", "c">>, 2)

\* C19: Esc can be taken in every iteration of the typing loop and of the
\* results loop, finished or not; the step that takes it leaves run_app and
\* changes nothing of the session, and once run_app is left there is no
\* further key, restart or history write.
C19_QuitIsImmediate ==
    [][/\ screen = "typing" => ENABLED TypingLoopOf("Esc")
       /\ screen = "results" => ENABLED ResultsLoopOf("Esc")
       /\ (screen # "exited" /\ screen' = "exited")
              => UNCHANGED <<app, clock, saves, session, mistyped, last>>
       /\ screen = "exited"
              => UNCHANGED <<app, screen, saves, session, mistyped, last>>]_vars

\* run_app was left in the middle of a session: one character typed, the
\* session neither finished nor saved
C19_Witness ==
    /\ screen = "exited"
    /\ ~app.is_finished
    /\ app.start_time # None
    /\ app.current_position = 1
    /\ saves.calls = 0

\* C20: when the history write of a finished session fails, run_app still
\* enters the results screen; the session is the one the iteration's key and
\* timeout check left, finished; the results screen shows it unchanged, and
\* Esc and Enter can be taken there as after a successful write.
C20_FailedSaveIsWarning ==
    [][/\ (screen = "typing" /\ saves'.warned) =>
              /\ screen' = "results"
              /\ saves'.calls = saves.calls + 1
              /\ app'.is_finished
              /\ \E key \in (Keys \ {"Esc"}) \cup {NoEvent} :
                 /\ last' = (IF key = NoEvent THEN last ELSE Met(KeyKind(key)))
                 /\ \E t \in CallReads(app, key, clock) :
                     /\ clock' = t.timeout
                     /\ app' = timeout_check(
                                   IF key = NoEvent THEN app
                                   ELSE handle_key_event(app, key, t),
                                   t.timeout)
       /\ (screen = "results" /\ saves.warned) =>
              /\ ENABLED ResultsLoopOf("Esc")
              /\ session < MaxSessions => ENABLED ResultsLoopOf("Enter")
              /\ screen' = "results" => app' = app]_vars

\* the results screen after a failed write: the finished session, one call of
\* save_history, its warning
C20_Witness ==
    /\ screen = "results"
    /\ saves.warned
    /\ saves.calls = 1
    /\ app.is_finished
    /\ app.current_position = Len(app.target_chars)
    /\ session = 0

\* the characters of the tracker that have a mean latency
Timed(a) ==
    { c \in DOMAIN a.key_metrics : average_time(a.key_metrics[c]) # None }

\* C21 as stated: whenever fewer than two characters have a mean latency, the
\* speed colour of every character is Gray ("no-data").
C21_NoDataForAll ==
    Cardinality(Timed(app)) < 2 =>
        \A c \in Chars : get_key_speed_color(app, c) = "Gray"

\* C21, amended: whenever fewer than two characters have a mean latency, the
\* speed colour is Gray ("no-data") for every character that has a KeyMetrics
\* entry and DarkGray ("unused") for every character that has none.
C21_NoData ==
    Cardinality(Timed(app)) < 2 =>
        \A c \in Chars :
            get_key_speed_color(app, c) =
                IF c \in DOMAIN app.key_metrics THEN "Gray" ELSE "DarkGray"

\* one character has a mean latency, of one second
C21_Witness ==
    /\ Timed(app) = {"a"}
    /\ average_time(app.key_metrics["a"]) = 1000
    /\ get_key_speed_color(app, "a") = "Gray"
    /\ get_key_speed_color(app, "b") = "DarkGray"

\* the mean latencies of the tracker, in milliseconds
AllMeans(a) == { average_time(a.key_metrics[c]) : c \in Timed(a) }

\* C22: for a character with samples, when at least two characters have a mean
\* latency and the largest mean exceeds the smallest, the speed colour follows
\* relativePosition = (mean - min) / (max - min): below 0.16 Green
\* ("fastest"), else below 0.33 light green ("fast"), else below 0.67 Yellow
\* ("medium"), else below 0.83 light red ("slow"), else, from exactly 0.83 on,
\* Red ("slowest"); the smallest mean is Green and the largest Red.
C22_SpeedThresholds ==
    \A c \in Timed(app) :
        LET min_time == SetMin(AllMeans(app))
            max_time == SetMax(AllMeans(app))
            position == (average_time(app.key_metrics[c]) - min_time) * 100
            whole == max_time - min_time
        IN  (Cardinality(Timed(app)) >= 2 /\ max_time > min_time) =>
                get_key_speed_color(app, c) =
                    IF position < 16 * whole THEN "Green"
                    ELSE IF position < 33 * whole THEN "LightGreen"
                    ELSE IF position < 67 * whole THEN "Yellow"
                    ELSE IF position < 83 * whole THEN "LightRed"
                    ELSE "Red"

\* C23: the accuracy colour of a character without a KeyMetrics entry is
\* DarkGray ("unused"); that of a character with samples follows
\* accuracy = (samples - errors) / samples of its own entry alone: from 0.95
\* Green ("highest"), from 0.85 light green ("high"), from 0.70 Yellow
\* ("medium"), from 0.50 light red ("low"), below that Red ("lowest").
C23_AccuracyThresholds ==
    \A c \in Chars :
        IF c \notin DOMAIN app.key_metrics
        THEN get_key_accuracy_color(app, c) = "DarkGray"
        ELSE LET samples == Len(app.key_metrics[c].times)
                 hits == samples - app.key_metrics[c].errors
             IN  samples > 0 =>
                     get_key_accuracy_color(app, c) =
                         IF 20 * hits >= 19 * samples THEN "Green"
                         ELSE IF 20 * hits >= 17 * samples THEN "LightGreen"
                         ELSE IF 10 * hits >= 7 * samples THEN "Yellow"
                         ELSE IF 2 * hits >= samples THEN "LightRed"
                         ELSE "Red"

\* seven attempts at "a", one of them wrong: 6/7 is in the band from 0.85;
\* "b" was never the expected character
C23_Witness ==
    /\ "a" \in DOMAIN app.key_metrics
    /\ Len(app.key_metrics["a"].times) = 7
    /\ app.key_metrics["a"].errors = 1
    /\ get_key_accuracy_color(app, "a") = "LightGreen"
    /\ get_key_accuracy_color(app, "b") = "DarkGray"

\* the WPM samples and the time of the last one
Samples(a) == <<a.wpm_history, a.wpm_data_points, a.last_wpm_update>>

\* C24: the WPM samples and the last sample time change only in a step that
\* applies the expected character and advances the cursor, and then by one
\* appended sample; a mismatched key (in either mode), a backspace, a key
\* that types nothing and the timeout check leave them unchanged.
C24_SamplesFrame ==
    [][/\ Samples(app') # Samples(app) =>
              /\ Typing(app)
              /\ IsKeyEvent(Expected(app))
              /\ app'.current_position = app.current_position + 1
              /\ Len(app'.wpm_data_points) = Len(app.wpm_data_points) + 1
              /\ SubSeq(app'.wpm_data_points, 1, Len(app.wpm_data_points))
                     = app.wpm_data_points
              /\ app'.wpm_history
                     = Append(app.wpm_history,
                              app'.wpm_data_points[Len(app'.wpm_data_points)][2])
       /\ last'.key \in {"Backspace", "Other", "Timeout"}
              => Samples(app') = Samples(app)
       /\ \A c \in Chars :
              (Typing(app) /\ c # Expected(app) /\ IsKeyEvent(c))
                  => Samples(app') = Samples(app)]_vars

\* normal mode: the second character was mistyped two seconds after the start,
\* the cursor advanced, and no sample was taken
C24_Witness ==
    /\ ~app.require_correction
    /\ last.key = "Char"
    /\ last.pos = 1
    /\ mistyped = {1}
    /\ app.current_position = 2
    /\ app.start_time = 0
    /\ app.last_keystroke_time = 2
    /\ app.wpm_data_points = <<>>

\* C25: the per-key timer is set to the time of the step when the step is the
\* first key of the session or moves the cursor, forward or backward, to a
\* position below len(target_chars), and is left unchanged by every other
\* step: a mismatch in correction mode, a backspace that removes nothing, a
\* key that types nothing, the key that completes the text, the timeout
\* check.  So in correction mode the latency of an attempt is not below that
\* of the attempt before it at the same position.
C25_KeyTimer ==
    [][/\ IF \/ app.start_time = None /\ app'.start_time # None
             \/ /\ app'.current_position # app.current_position
                /\ app'.current_position < Len(app'.target_chars)
          THEN /\ clock <= app'.current_key_start_time
               /\ app'.current_key_start_time <= clock'
          ELSE app'.current_key_start_time = app.current_key_start_time
       /\ ( /\ app.require_correction
            /\ Typing(app)
            /\ last.key = "Char"
            /\ last.pos = app.current_position
            /\ ~last.fin
            /\ Len(TimesOf(app', Expected(app))) > Len(TimesOf(app, Expected(app))) )
              => LET before == TimesOf(app, Expected(app))
                     after == TimesOf(app', Expected(app))
                 IN  before # <<>> /\ after[Len(after)] >= before[Len(before)]]_vars

\* correction mode: two wrong attempts at the first character, a second apart;
\* the timer still holds the time of the first key
C25_Witness ==
    /\ app.require_correction
    /\ app.current_position = 0
    /\ app.errors = 2
    /\ TimesOf(app, "a") = <<0, 1>>
    /\ app.current_key_start_time = 0
    /\ clock = 2

\* C26: in every state the length of the echo equals the cursor; so a
\* backspace read by the typing loop moves the cursor back by one exactly when
\* it removes an echo character, and leaves cursor, echo and total_keystrokes
\* as they are exactly when the cursor is 0.
C26_EchoLength ==
    /\ Len(app.user_input) = app.current_position
    /\ [][/\ Len(app'.user_input) = app'.current_position
          /\ (last' = Met("Backspace") /\ TypingLoopOf("Backspace")) =>
                 /\ (app'.current_position = app.current_position - 1)
                        <=> (Len(app'.user_input) = Len(app.user_input) - 1)
                 /\ (app.current_position = 0)
                        <=> /\ app'.current_position = app.current_position
                            /\ app'.user_input = app.user_input
                            /\ app'.total_keystrokes = app.total_keystrokes
                 /\ app.current_position > 0 =>
                        /\ app'.current_position = app.current_position - 1
                        /\ app'.total_keystrokes = app.total_keystrokes + 1]_vars

\* a character was typed and taken back, and a second backspace met cursor 0
C26_Witness ==
    /\ screen = "typing"
    /\ last.key = "Backspace"
    /\ last.pos = 0
    /\ app.total_keystrokes = 2
    /\ app.current_position = 0
    /\ app.user_input = <<>>

\* C27: in correction mode the echo is at all times the prefix of the target
\* text that ends before the cursor: no echo position holds a character other
\* than the target's.
C27_EchoIsPrefix ==
    app.require_correction =>
        /\ app.current_position <= Len(app.target_chars)
        /\ app.user_input = SubSeq(app.target_chars, 1, app.current_position)

\* correction mode: a wrong key was pressed on the way; the echo holds the
\* first two target characters and nothing of the wrong key
C27_Witness ==
    /\ app.require_correction
    /\ app.target_chars = <<"a", "b", "c">>
    /\ app.user_input = <<"a", "b">>
    /\ app.current_position = 2
    /\ app.errors >= 1
    /\ app.total_keystrokes = 3

\* C28: every KeyMetrics entry has at least one latency sample and no more
\* errors than latency samples, so times.len() - errors does not underflow and
\* the per-key accuracy lies in 0..1; the timer a sample is taken from is
\* always running while a character is expected.
C28_ErrorsWithinSamples ==
    /\ \A c \in DOMAIN app.key_metrics :
           /\ Len(app.key_metrics[c].times) >= 1
           /\ app.key_metrics[c].errors >= 0
           /\ app.key_metrics[c].errors <= Len(app.key_metrics[c].times)
           /\ average_time(app.key_metrics[c]) # None
           /\ get_key_accuracy_color(app, c) # "Underflow"
    /\ Typing(app) => app.current_key_start_time # None

\* correction mode: both attempts at the first character were wrong, its
\* accuracy is 0
C28_Witness ==
    /\ DOMAIN app.key_metrics = {"a"}
    /\ Len(app.key_metrics["a"].times) = 2
    /\ app.key_metrics["a"].errors = 2
    /\ get_key_accuracy_color(app, "a") = "Red"

\* the error counts, and the numbers of latency samples, over all entries
KeyErrors(a) ==
    SumSeq([i \in 1..4 |-> ErrorsOf(a, <<"a", "b", "c", "x">>[i])])

KeySamples(a) ==
    SumSeq([i \in 1..4 |-> Len(TimesOf(a, <<"a", "b", "c", "x">>[i]))])

\* C29: in every state the error counts of all KeyMetrics entries add up to
\* errors, and the latency samples of all entries are as many as the printable
\* keys applied: every step adds as many samples as it adds to
\* total_keystrokes, less one when it is a backspace that removes an echo
\* character.
C29_MetricsTotals ==
    /\ KeyErrors(app) = app.errors
    /\ KeySamples(app) = app.total_keystrokes
    /\ DOMAIN app.key_metrics \subseteq Chars
    /\ [][/\ KeyErrors(app') = app'.errors
          /\ DOMAIN app'.key_metrics \subseteq Chars
          /\ KeySamples(app') - KeySamples(app) =
                 (app'.total_keystrokes - app.total_keystrokes)
                     - (IF Len(app'.user_input) < Len(app.user_input) THEN 1 ELSE 0)]_vars

\* normal mode: two wrong characters, then a backspace: three keystrokes, two
\* samples, two errors on two entries
C29_Witness ==
    /\ DOMAIN app.key_metrics = {"a", "b"}
    /\ app.errors = 2
    /\ KeyErrors(app) = 2
    /\ KeySamples(app) = 2
    /\ app.total_keystrokes = 3
    /\ last.key = "Backspace"


\* C30: save_history is called once per completed session: in the iteration of
\* the typing loop in which is_finished becomes true, by exhaustion or by
\* timeout, and that iteration enters the results screen; it is not called
\* while the session is unfinished, not again on the results screen, and not
\* for a session left by Esc before it finished.
C30_SavedOncePerSession ==
    /\ saves = NotSaved
    /\ [][/\ screen' = "typing" => (saves'.calls = 0 /\ ~app'.is_finished)
          /\ screen' = "results" => (saves'.calls = 1 /\ app'.is_finished)
          /\ screen' = "exited" =>
                 saves'.calls = (IF app'.is_finished THEN 1 ELSE 0)
          /\ (~app.is_finished /\ app'.is_finished) =>
                 /\ screen = "typing"
                 /\ saves'.calls = saves.calls + 1
                 /\ screen' = "results"
          /\ saves'.calls > saves.calls =>
                 /\ screen = "typing"
                 /\ ~app.is_finished
                 /\ app'.is_finished
                 /\ saves'.calls = saves.calls + 1
          /\ saves'.calls < saves.calls =>
                 /\ screen = "results"
                 /\ screen' = "typing"
                 /\ session' = session + 1
                 /\ saves' = NotSaved
          /\ screen = "results" /\ screen' # "typing" => saves' = saves]_vars

\* the second session, ended by the timeout before the text was typed, on the
\* results screen with its one successful call of save_history
C30_Witness ==
    /\ session = 1
    /\ screen = "results"
    /\ saves = save_history(NotSaved, TRUE)
    /\ app.is_finished
    /\ app.current_position < Len(app.target_chars)


\* C31: an iteration of the typing loop applies at most one key, and applies
\* it before its timeout check: the session it leaves is the timeout check of
\* the session the key left. So an iteration that changes the session and
\* ends at or after the deadline, and in particular one whose key arrives at
\* or after the deadline, leaves the session finished and enters the results
\* screen; a finished session is changed by no further key.
C31_OneKeyBeforeTimeout ==
    [][/\ (screen = "typing" /\ app' # app) =>
              /\ \E key \in (Keys \ {"Esc"}) \cup {NoEvent} :
                 /\ last' = (IF key = NoEvent THEN last ELSE Met(KeyKind(key)))
                 /\ \E t \in CallReads(app, key, clock) :
                     /\ clock' = t.timeout
                     /\ app' = timeout_check(
                                   IF key = NoEvent THEN app
                                   ELSE handle_key_event(app, key, t),
                                   t.timeout)
              /\ app'.total_keystrokes <= app.total_keystrokes + 1
              /\ app'.start_time # None
              /\ duration_since(clock', app'.start_time) >= app'.test_duration
                     => (app'.is_finished /\ screen' = "results")
              /\ (/\ app.start_time # None
                  /\ duration_since(clock, app.start_time) >= app.test_duration)
                     => (app'.is_finished /\ screen' = "results")
       /\ screen = "typing" => ~app.is_finished
       /\ (app.is_finished /\ session' = session) => app' = app]_vars

\* a key applied at the deadline: the session began at 0 with a correct key,
\* the second key was read at 1 = test_duration, it moved the cursor, and the
\* timeout check of its iteration finished the session
C31_Witness ==
    /\ screen = "results"
    /\ session = 0
    /\ app.is_finished
    /\ last.key = "Char"
    /\ app.start_time = 0
    /\ app.last_keystroke_time = app.start_time + app.test_duration
    /\ app.current_position = 2
    /\ app.current_position < Len(app.target_chars)
    /\ app.total_keystrokes = 2

====
